---- MODULE Spec2Model ----
(***************************************************************************)
(* kivy/adapters/listadapter.py: ListAdapter, SelectableListsAdapter and   *)
(* AccumulatingListAdapter, with the SelectionSupport mixin, the Adapter   *)
(* base class and the property/event dispatch they rest on.                *)
(*                                                                         *)
(* Every public call (construction, data replacement, toggle, get_item,    *)
(* get_view) is one action: the whole synchronous cascade of property and  *)
(* event handlers it triggers runs inside it, as mutually recursive        *)
(* operators over a "world" record w that holds the heap during the call.  *)
(***************************************************************************)
EXTENDS Integers, Sequences, FiniteSets, TLC

\* Longest data sequence given to a root adapter from outside.
MaxLen == 2
\* Nesting budget of event dispatches inside one call.
MaxDepth == 8

Adapters == {1, 2, 3}
None == 0

(***************************************************************************)
(* Python values held in data sequences.  k is the Python type, v the      *)
(* payload (an int is kept by its decimal digits), la the value under the  *)
(* 'list_adapter' key of a dict (None when the key is missing).            *)
(*   str   a string v                                                      *)
(*   int   an integer printed v                                            *)
(*   objs  an object whose attribute text is the string v                  *)
(*   obji  an object whose attribute text is the integer printed v         *)
(*   dict  a mapping {'text': v} (plus 'list_adapter': la when la # None)  *)
(***************************************************************************)
S(v) == [k |-> "str", v |-> v, la |-> None]
I(v) == [k |-> "int", v |-> v, la |-> None]
Os(v) == [k |-> "objs", v |-> v, la |-> None]
Oi(v) == [k |-> "obji", v |-> v, la |-> None]
D(v) == [k |-> "dict", v |-> v, la |-> None]
NoneValue == [k |-> "None", v |-> "", la |-> None]

\* str(x): a string is itself, an int its digits, a dict its repr, an object
\* what its class prints.
Str(x) ==
  CASE x.k = "str" -> x
    [] x.k = "int" -> S(x.v)
    [] x.k = "dict" -> S("{...}")
    [] OTHER -> S("obj")

HasText(x) == x.k \in {"objs", "obji"}

\* x.text, for an x that has the attribute.
Text(x) == IF x.k = "objs" THEN S(x.v) ELSE I(x.v)

IsMapping(x) == x.k = "dict"

\* Items a caller puts in the data of the root adapter of a cascade: a string
\* and two objects that carry a text attribute.
CascadeItems == {S("A"), Os("x"), Oi("1")}
\* Items a caller puts in the data of an adapter that makes views.
ViewItems == {S("A"), D("A"), D("B")}

RECURSIVE SeqsUpTo(_, _)
SeqsUpTo(U, n) ==
  IF n = 0 THEN {<< >>}
  ELSE LET shorter == SeqsUpTo(U, n - 1)
       IN shorter \cup {Append(s, x) : s \in {t \in shorter : Len(t) = n - 1}, x \in U}

CascadeData == SeqsUpTo(CascadeItems, MaxLen)
ViewData == SeqsUpTo(ViewItems, MaxLen)

\* Values of selectable_lists_dict: one with an entry for every key an item
\* of a cascade renders to, one that lacks "obj".
FullTable == [key \in {"A", "B", "1", "obj"} |->
               CASE key = "A" -> <<S("B"), I("1")>>
                 [] key = "B" -> <<Os("x"), Oi("1")>>
                 [] key = "1" -> <<S("A")>>
                 [] OTHER -> <<Oi("1"), Os("x")>>]
PartialTable == [key \in {"A", "B", "1"} |-> FullTable[key]]
EmptyTable == [key \in {} |-> << >>]
Tables == {FullTable, PartialTable}

\* Initial data handed to a derived adapter's constructor.
DerivedInitialData == {<< >>, <<S("A")>>}

Range(s) == {s[i] : i \in 1..Len(s)}

VARIABLES
  kind,                    \* class of each constructed adapter, "none" before
  data,                    \* ListAdapter.data
  selection,               \* SelectionSupport.selection
  selection_mode,          \* SelectionSupport.selection_mode
  allow_empty_selection,   \* SelectionSupport.allow_empty_selection
  cls,                     \* Adapter.cls is set
  template,                \* Adapter.template is set
  args_converter,          \* Adapter.args_converter is set
  observed_list_adapter,   \* the adapter a derived adapter observes
  selectable_lists_dict,   \* SelectableListsAdapter.selectable_lists_dict
  data_bound,              \* adapters with initialize_selection bound to data
  bound,                   \* <<o, d>>: d's handler is bound to o's on_selection_change
  events,                  \* what the last call did, in order
  ret                      \* the last call and what it returned or raised

vars == <<kind, data, selection, selection_mode, allow_empty_selection, cls,
          template, args_converter, observed_list_adapter,
          selectable_lists_dict, data_bound, bound, events, ret>>

\* The heap as a call sees it; err is the exception in flight.
World ==
  [kind |-> kind, data |-> data, selection |-> selection,
   selection_mode |-> selection_mode,
   allow_empty_selection |-> allow_empty_selection,
   cls |-> cls, template |-> template, args_converter |-> args_converter,
   observed_list_adapter |-> observed_list_adapter,
   selectable_lists_dict |-> selectable_lists_dict,
   data_bound |-> data_bound, bound |-> bound,
   events |-> << >>, err |-> "none"]

Raise(w, e) == [w EXCEPT !.err = e]
Log(w, ev) == [w EXCEPT !.events = Append(@, ev)]


(***************************************************************************)
(* The cascade.  Every operator takes the world, the adapter it runs on    *)
(* and the dispatch budget d, and returns the world it leaves; with an     *)
(* exception in flight nothing more runs.                                  *)
(***************************************************************************)
RECURSIVE DataAssign(_, _, _, _)
RECURSIVE initialize_selection(_, _, _)
RECURSIVE check_for_empty_selection(_, _, _)
RECURSIVE dispatch_on_selection_change(_, _, _)
RECURSIVE NotifyObservers(_, _, _, _)
RECURSIVE on_selection_change(_, _, _)
RECURSIVE SelectableLists_on_selection_change(_, _, _)
RECURSIVE Accumulating_on_selection_change(_, _, _)

\* self.data = seq on adapter a: the property takes the value and calls the
\* handler bound to it, initialize_selection.
DataAssign(w, a, seq, d) ==
  IF w.err # "none" THEN w
  ELSE LET w0 == Log([w EXCEPT !.data[a] = seq], <<"data", a>>)
       IN IF a \in w0.data_bound THEN initialize_selection(w0, a, d) ELSE w0

\* The entries of the selection that are still items of the data.
KeptSelection(w, a) ==
  SelectSeq(w.selection[a], LAMBDA x : x \in Range(w.data[a]))

\* initialize_selection that announces a change whether or not there is one.
initialize_selection_announcing(w, a, d) ==
  IF w.err # "none" THEN w
  ELSE dispatch_on_selection_change(
         Log(w, <<"initialize_selection", a>>), a, d)

\* SelectionSupport.initialize_selection: drop the entries that are no longer
\* items of the data (a change is announced), then check_for_empty_selection.
initialize_selection(w, a, d) ==
  IF w.err # "none" THEN w
  ELSE LET w0 == Log(w, <<"initialize_selection", a>>)
           kept == KeptSelection(w0, a)
           w1 == IF kept # w0.selection[a]
                 THEN dispatch_on_selection_change(
                        [w0 EXCEPT !.selection[a] = kept], a, d)
                 ELSE w0
       IN check_for_empty_selection(w1, a, d)

DefaultSelection_last(w, a) == <<w.data[a][Len(w.data[a])]>>

\* The selection check_for_empty_selection makes by default.
DefaultSelection(w, a) == <<w.data[a][1]>>

\* SelectionSupport.check_for_empty_selection.
check_for_empty_selection(w, a, d) ==
  IF w.err # "none" THEN w
  ELSE LET w0 == Log(w, <<"check_for_empty_selection", a>>)
       IN IF /\ Len(w0.selection[a]) = 0
             /\ Len(w0.data[a]) > 0
             /\ ~w0.allow_empty_selection[a]
          THEN dispatch_on_selection_change(
                 [w0 EXCEPT !.selection[a] = DefaultSelection(w0, a)], a, d)
          ELSE w0

\* The adapters whose handler is bound to a's on_selection_change, in order.
RECURSIVE SetToSeq(_)
SetToSeq(T) ==
  IF T = {} THEN << >>
  ELSE LET m == CHOOSE x \in T : \A y \in T : x <= y
       IN <<m>> \o SetToSeq(T \ {m})

Observers(w, a) == SetToSeq({o \in Adapters : <<a, o>> \in w.bound})

\* NotifyObservers that delivers to nobody.
NotifyObservers_none(w, a, obs, d) == w

NotifyObservers(w, a, obs, d) ==
  IF w.err # "none" \/ obs = << >> THEN w
  ELSE NotifyObservers(on_selection_change(w, Head(obs), d), a, Tail(obs), d)

\* dispatch('on_selection_change') on adapter a: the bound handlers of the
\* observers, then a's own on_selection_change.
dispatch_on_selection_change(w, a, d) ==
  IF w.err # "none" THEN w
  ELSE IF d = 0 THEN Raise(w, "RecursionLimit")
  ELSE LET w0 == Log(w, <<"emit", a>>)
           w1 == NotifyObservers(w0, a, Observers(w0, a), d - 1)
       IN on_selection_change(w1, a, d - 1)

\* SelectableListsData keyed by the last selected item instead of the first.
SelectableListsData_last(table, observed_selection) ==
  IF Len(observed_selection) = 0 THEN << >>
  ELSE LET key == Str(observed_selection[Len(observed_selection)]).v
       IN IF key \in DOMAIN table THEN table[key] ELSE << >>

\* What SelectableListsAdapter derives from the observed selection.
SelectableListsData(table, observed_selection) ==
  IF Len(observed_selection) = 0 THEN << >>
  ELSE table[Str(observed_selection[1]).v]

\* The handler with a missing key taken for an empty list.
SelectableLists_on_selection_change_default(w, a, d) ==
  LET observed_selection == w.selection[w.observed_list_adapter[a]]
      table == w.selectable_lists_dict[a]
  IN IF Len(observed_selection) = 0 THEN DataAssign(w, a, << >>, d)
     ELSE IF Str(observed_selection[1]).v \notin DOMAIN table
          THEN DataAssign(w, a, << >>, d)
          ELSE DataAssign(w, a, SelectableListsData(table, observed_selection), d)

SelectableLists_on_selection_change(w, a, d) ==
  LET observed_selection == w.selection[w.observed_list_adapter[a]]
      table == w.selectable_lists_dict[a]
  IN IF Len(observed_selection) = 0 THEN DataAssign(w, a, << >>, d)
     ELSE IF Str(observed_selection[1]).v \notin DOMAIN table
          THEN Raise(w, "KeyError")
          ELSE DataAssign(w, a, SelectableListsData(table, observed_selection), d)

\* AccumulatingData that takes the text attributes as they are, without str().
AccumulatingData_raw(observed_selection) ==
  [n \in 1..Len(observed_selection) |-> Text(observed_selection[n])]

\* What AccumulatingListAdapter derives from the observed selection.
AccumulatingData(observed_selection) ==
  [n \in 1..Len(observed_selection) |-> Str(Text(observed_selection[n]))]

\* The handler that also clears the selection it has read.
Accumulating_on_selection_change_clearing(w, a, d) ==
  DataAssign([w EXCEPT !.selection[w.observed_list_adapter[a]] = << >>],
             a, << >>, d)

Accumulating_on_selection_change(w, a, d) ==
  LET observed_selection == w.selection[w.observed_list_adapter[a]]
  IN IF Len(observed_selection) = 0 THEN DataAssign(w, a, << >>, d)
     ELSE IF \E x \in Range(observed_selection) : ~HasText(x)
          THEN Raise(w, "AttributeError")
          ELSE DataAssign(w, a, AccumulatingData(observed_selection), d)

\* a.on_selection_change(), by a's class.
on_selection_change(w, a, d) ==
  IF w.err # "none" THEN w
  ELSE LET w0 == Log(w, <<"on_selection_change", a>>)
       IN CASE w0.kind[a] = "SelectableListsAdapter" ->
                 SelectableLists_on_selection_change(w0, a, d)
            [] w0.kind[a] = "AccumulatingListAdapter" ->
                 Accumulating_on_selection_change(w0, a, d)
            [] OTHER -> w0

\* ToggledSelection that adds to the selection whatever the mode.
ToggledSelection_add(mode, allow_empty, sel, item) ==
  IF item \in Range(sel)
  THEN SelectSeq(sel, LAMBDA x : x # item)
  ELSE Append(sel, item)

\* The selection toggle(item) leaves.
ToggledSelection(mode, allow_empty, sel, item) ==
  IF mode = "single"
  THEN IF sel = <<item>> /\ allow_empty THEN << >> ELSE <<item>>
  ELSE IF item \in Range(sel)
       THEN SelectSeq(sel, LAMBDA x : x # item)
       ELSE Append(sel, item)

\* SelectionSupport.toggle(item).
toggle(w, a, item, d) ==
  LET sel == ToggledSelection(w.selection_mode[a], w.allow_empty_selection[a],
                              w.selection[a], item)
      w0 == Log(w, <<"toggle", a>>)
  IN IF sel # w.selection[a]
     THEN dispatch_on_selection_change([w0 EXCEPT !.selection[a] = sel], a, d)
     ELSE w0


(***************************************************************************)
(* Items and views.                                                        *)
(***************************************************************************)
get_count(w, a) == Len(w.data[a])

\* get_item whose lower bound is off by one.
get_item_off(w, a, index) ==
  IF index <= 0 \/ index >= Len(w.data[a]) THEN NoneValue
  ELSE w.data[a][index + 1]

get_item(w, a, index) ==
  IF index < 0 \/ index >= Len(w.data[a]) THEN NoneValue
  ELSE w.data[a][index + 1]

\* The argument set an args_converter makes of an item: a new dict.
Converted(item) == D(Str(item).v)

\* Adapter.resolveArguments: the converter's result, or the item itself.
item_args_of(w, a, item) ==
  IF w.args_converter[a] THEN Converted(item) ELSE item

\* The instance cls(**item_args) or Builder.template(template, **item_args).
ViewOf(w, a, item_args) ==
  [k |-> IF w.cls[a] THEN "view_cls" ELSE "view_template",
   v |-> item_args.v, la |-> item_args.la]

\* s with every occurrence of the object old replaced by new.
Replaced(s, old, new) == [n \in 1..Len(s) |-> IF s[n] = old THEN new ELSE s[n]]

\* get_view that builds the view without the 'list_adapter' argument.
get_view_no_owner(w, a, index) ==
  LET item == get_item(w, a, index)
      item_args == item_args_of(w, a, item)
  IN IF item = NoneValue THEN [w |-> w, val |-> NoneValue]
     ELSE IF ~IsMapping(item_args)
          THEN [w |-> Raise(w, "TypeError"), val |-> NoneValue]
          ELSE [w |-> w, val |-> ViewOf(w, a, item_args)]

\* get_view(index): [w |-> the world it leaves, val |-> what it returns].
get_view(w, a, index) ==
  LET item == get_item(w, a, index)
      item_args == item_args_of(w, a, item)
      injected == [item_args EXCEPT !.la = a]
      \* without a converter item_args is the data item itself, and the
      \* assignment of 'list_adapter' writes into it
      w1 == IF w.args_converter[a]
            THEN w
            ELSE [w EXCEPT !.data[a] = Replaced(@, item, injected),
                           !.selection[a] = Replaced(@, item, injected)]
  IN IF item = NoneValue THEN [w |-> w, val |-> NoneValue]
     ELSE IF ~IsMapping(item_args)
          THEN [w |-> Raise(w, "TypeError"), val |-> NoneValue]
          ELSE [w |-> w1, val |-> ViewOf(w1, a, injected)]

(***************************************************************************)
(* Construction.  kw holds the keyword arguments; arg is the data argument *)
(* ([is_seq |-> whether it is a tuple or list, seq |-> its items]).        *)
(***************************************************************************)
\* Adapter.__init__ that takes any combination of cls and template.
Adapter_init_unchecked(w, a, kw) ==
  [w EXCEPT !.kind[a] = kw.kind,
            !.selection_mode[a] = kw.selection_mode,
            !.allow_empty_selection[a] = kw.allow_empty_selection,
            !.cls[a] = kw.cls,
            !.template[a] = kw.template,
            !.args_converter[a] = kw.args_converter,
            !.observed_list_adapter[a] = kw.observed_list_adapter,
            !.selectable_lists_dict[a] = kw.selectable_lists_dict]

\* Adapter.__init__: the keyword arguments become properties; exactly one of
\* cls and template must be given.
Adapter_init(w, a, kw) ==
  IF kw.cls = kw.template THEN Raise(w, "ConfigurationError")
  ELSE [w EXCEPT !.kind[a] = kw.kind,
                 !.selection_mode[a] = kw.selection_mode,
                 !.allow_empty_selection[a] = kw.allow_empty_selection,
                 !.cls[a] = kw.cls,
                 !.template[a] = kw.template,
                 !.args_converter[a] = kw.args_converter,
                 !.observed_list_adapter[a] = kw.observed_list_adapter,
                 !.selectable_lists_dict[a] = kw.selectable_lists_dict]

\* BindData that binds nothing.
BindData_unbound(w, a) ==
  IF w.err # "none" THEN w ELSE Log(w, <<"bind_data", a>>)

\* self.bind(data=self.initialize_selection)
BindData(w, a) ==
  IF w.err # "none" THEN w
  ELSE Log([w EXCEPT !.data_bound = @ \cup {a}], <<"bind_data", a>>)

\* ListAdapter.__init__ that looks at the type of data last.
ListAdapter_init_late(w, a, arg, kw, d) ==
  LET w1 == DataAssign(BindData(Adapter_init(w, a, kw), a), a, arg.seq, d)
  IN IF w1.err = "none" /\ ~arg.is_seq THEN Raise(w1, "Exception") ELSE w1

ListAdapter_init(w, a, arg, kw, d) ==
  IF ~arg.is_seq THEN Raise(w, "Exception")
  ELSE DataAssign(BindData(Adapter_init(w, a, kw), a), a, arg.seq, d)

\* observed_list_adapter.bind(on_selection_change=self.on_selection_change)
BindObserved(w, a) ==
  IF w.err # "none" THEN w
  ELSE Log([w EXCEPT !.bound = @ \cup {<<w.observed_list_adapter[a], a>>}],
           <<"bind_observed", a>>)

\* SelectableListsAdapter.__init__ and AccumulatingListAdapter.__init__
Derived_init(w, a, arg, kw, d) ==
  BindObserved(ListAdapter_init(w, a, arg, kw, d), a)


(***************************************************************************)
(* The calls a program makes.                                              *)
(***************************************************************************)
Modes == {"single", "multiple"}

\* cls, template and args_converter as a caller may give them.
ViewConfigs == [cls : BOOLEAN, template : BOOLEAN, args_converter : BOOLEAN]
\* The configuration the adapters of a cascade are given.
CascadeViewConfigs ==
  {[cls |-> TRUE, template |-> FALSE, args_converter |-> TRUE]}

\* The data argument: a list of items, or a single scalar.
ListArgs(seqs) == {[is_seq |-> TRUE, seq |-> s] : s \in seqs}
ScalarArgs == {[is_seq |-> FALSE, seq |-> << >>]}

Kwargs(k, mode, allow, vc, observed, table) ==
  [kind |-> k, selection_mode |-> mode, allow_empty_selection |-> allow,
   cls |-> vc.cls, template |-> vc.template,
   args_converter |-> vc.args_converter,
   observed_list_adapter |-> observed, selectable_lists_dict |-> table]

\* What a call was given (for a constructor: whether data is a tuple or list,
\* and whether cls and template are set) and what came of it.
NoArg == [is_seq |-> TRUE, cls |-> FALSE, template |-> FALSE]
ConstructArg(arg, vc) ==
  [is_seq |-> arg.is_seq, cls |-> vc.cls, template |-> vc.template]

ResultOf(op, a, i, arg, val, err) ==
  [op |-> op, a |-> a, i |-> i, arg |-> arg, val |-> val, err |-> err]
Result(op, a, i, val, err) == ResultOf(op, a, i, NoArg, val, err)

\* The call is over: the heap is the world it left.
Commit(w, r) ==
  /\ kind' = w.kind
  /\ data' = w.data
  /\ selection' = w.selection
  /\ selection_mode' = w.selection_mode
  /\ allow_empty_selection' = w.allow_empty_selection
  /\ cls' = w.cls
  /\ template' = w.template
  /\ args_converter' = w.args_converter
  /\ observed_list_adapter' = w.observed_list_adapter
  /\ selectable_lists_dict' = w.selectable_lists_dict
  /\ data_bound' = w.data_bound
  /\ bound' = w.bound
  /\ events' = w.events
  /\ ret' = r

\* A constructor that raised: the instance is dropped, and with it all the
\* constructor wrote (it writes to the new instance only).
Dropped(w, r) ==
  /\ UNCHANGED <<kind, data, selection, selection_mode, allow_empty_selection,
                 cls, template, args_converter, observed_list_adapter,
                 selectable_lists_dict, data_bound, bound>>
  /\ events' = w.events
  /\ ret' = r

Constructed(a) == kind[a] # "none"

\* ListAdapter(data, **kwargs), as adapter 1.
ConstructListAdapter(args, configs) ==
  /\ ~Constructed(1)
  /\ \E arg \in args, mode \in Modes, allow \in BOOLEAN, vc \in configs :
       LET kw == Kwargs("ListAdapter", mode, allow, vc, None, EmptyTable)
           w == ListAdapter_init(World, 1, arg, kw, MaxDepth)
           r == ResultOf("construct", 1, 0, ConstructArg(arg, vc), NoneValue, w.err)
       IN IF w.err = "none" THEN Commit(w, r) ELSE Dropped(w, r)

DerivedKinds == {"SelectableListsAdapter", "AccumulatingListAdapter"}

TablesOf(k) == IF k = "SelectableListsAdapter" THEN Tables ELSE {EmptyTable}

\* SelectableListsAdapter(...) or AccumulatingListAdapter(...), as adapter a,
\* observing an adapter constructed before it.
ConstructDerived(a, modes, initial) ==
  /\ ~Constructed(a)
  /\ \E o \in 1..(a - 1), k \in DerivedKinds, mode \in modes,
        allow \in BOOLEAN, seq \in initial, vc \in CascadeViewConfigs :
       /\ Constructed(o)
       /\ \E table \in TablesOf(k) :
            LET kw == Kwargs(k, mode, allow, vc, o, table)
                arg == [is_seq |-> TRUE, seq |-> seq]
                w == Derived_init(World, a, arg, kw, MaxDepth)
                r == ResultOf("construct", a, 0, ConstructArg(arg, vc), NoneValue, w.err)
            IN IF w.err = "none" THEN Commit(w, r) ELSE Dropped(w, r)

\* adapter.data = seq, from outside, on the root adapter.
ReplaceData(seqs) ==
  /\ Constructed(1)
  /\ \E seq \in seqs :
       LET w == DataAssign(World, 1, seq, MaxDepth)
       IN Commit(w, Result("set_data", 1, 0, NoneValue, w.err))

\* adapter.toggle(item) for the item at position i of its data; ret.val is
\* the item.
Toggle ==
  \E a \in Adapters :
    /\ Constructed(a)
    /\ \E i \in 1..Len(data[a]) :
         LET w == toggle(World, a, data[a][i], MaxDepth)
         IN Commit(w, Result("toggle", a, 0, data[a][i], w.err))

Indices == -1..(MaxLen + 1)

GetItem ==
  \E a \in Adapters, i \in Indices :
    /\ Constructed(a)
    /\ Commit(World, Result("get_item", a, i, get_item(World, a, i), "none"))

GetView ==
  \E a \in Adapters, i \in Indices :
    /\ Constructed(a)
    /\ LET g == get_view(World, a, i)
       IN Commit(g.w, Result("get_view", a, i, g.val, g.w.err))

\* adapter.check_for_empty_selection() called on its own.
CheckForEmptySelection ==
  \E a \in Adapters :
    /\ Constructed(a)
    /\ LET w == check_for_empty_selection(World, a, MaxDepth)
       IN Commit(w, Result("check_for_empty_selection", a, 0, NoneValue,
                           w.err))

Init ==
  /\ kind = [a \in Adapters |-> "none"]
  /\ data = [a \in Adapters |-> << >>]
  /\ selection = [a \in Adapters |-> << >>]
  /\ selection_mode = [a \in Adapters |-> "single"]
  /\ allow_empty_selection = [a \in Adapters |-> TRUE]
  /\ cls = [a \in Adapters |-> FALSE]
  /\ template = [a \in Adapters |-> FALSE]
  /\ args_converter = [a \in Adapters |-> FALSE]
  /\ observed_list_adapter = [a \in Adapters |-> None]
  /\ selectable_lists_dict = [a \in Adapters |-> EmptyTable]
  /\ data_bound = {}
  /\ bound = {}
  /\ events = << >>
  /\ ret = Result("none", None, 0, NoneValue, "none")

\* A root adapter and an adapter derived from it.
Next ==
  \/ ConstructListAdapter(ListArgs(CascadeData), CascadeViewConfigs)
  \/ ConstructDerived(2, Modes, DerivedInitialData)
  \/ ReplaceData(CascadeData)
  \/ Toggle

Spec == Init /\ [][Next]_vars

\* A chain: adapter 2 observes adapter 1, adapter 3 observes adapter 1 or 2.
ChainItems == {S("A"), Os("x")}
ChainData == SeqsUpTo(ChainItems, MaxLen)

NextChain ==
  \/ ConstructListAdapter(ListArgs(ChainData), CascadeViewConfigs)
  \/ ConstructDerived(2, {"single"}, {<< >>})
  \/ ConstructDerived(3, {"single"}, {<< >>})
  \/ ReplaceData(ChainData)
  \/ Toggle

SpecChain == Init /\ [][NextChain]_vars

\* One ListAdapter, however it is configured, and the reads of its items.
NextView ==
  \/ ConstructListAdapter(ListArgs(ViewData) \cup ScalarArgs, ViewConfigs)
  \/ ReplaceData(ViewData)
  \/ Toggle
  \/ GetItem
  \/ GetView
  \/ CheckForEmptySelection

SpecView == Init /\ [][NextView]_vars


(***************************************************************************)
(* Properties.                                                             *)
(***************************************************************************)
\* Adapter a emitted selection-change during the last call.
Emitted(a) == \E n \in 1..Len(events) : events[n] = <<"emit", a>>

\* The last call assigned adapter a's data.
DataReplaced(a) == \E n \in 1..Len(events) : events[n] = <<"data", a>>

\* d's handler was bound to o's selection-change when the last call began.
Observes(d, o) == <<o, d>> \in bound /\ ~(ret.op = "construct" /\ ret.a = d)

\* The key SelectableListsAdapter d looks up.
ObservedKey(d) == Str(selection[observed_list_adapter[d]][1]).v

\* C1: whenever the observed adapter emitted selection-change and the call
\* returned, a SelectableListsAdapter's data is empty if the observed
\* selection is empty and otherwise the table entry under str() of the first
\* selected item, whatever else is selected.
C1_CascadeData ==
  \A d \in Adapters :
    LET o == observed_list_adapter[d]
    IN (/\ kind[d] = "SelectableListsAdapter"
        /\ Observes(d, o)
        /\ Emitted(o)
        /\ ret.err = "none")
       => IF selection[o] = << >>
          THEN data[d] = << >>
          ELSE data[d] = selectable_lists_dict[d][ObservedKey(d)]

\* The observed selection holds two items, the first renders to "A", and the
\* derived data is the entry of "A".
C1_Witness ==
  /\ kind[2] = "SelectableListsAdapter"
  /\ Emitted(1)
  /\ ret.op = "toggle"
  /\ ret.err = "none"
  /\ selection[1] = <<S("A"), Os("x")>>
  /\ data[2] = <<S("B"), I("1")>>

\* C2: whenever the observed adapter emitted selection-change and the call
\* returned, an AccumulatingListAdapter's data is as long as the observed
\* selection and holds, position by position, str() of the text attribute of
\* the selected item (empty when the selection is empty).
C2_AccumulatedData ==
  \A d \in Adapters :
    LET o == observed_list_adapter[d]
    IN (/\ kind[d] = "AccumulatingListAdapter"
        /\ Observes(d, o)
        /\ Emitted(o)
        /\ ret.err = "none")
       => /\ Len(data[d]) = Len(selection[o])
          /\ \A n \in 1..Len(selection[o]) :
               /\ HasText(selection[o][n])
               /\ data[d][n] = Str(Text(selection[o][n]))

\* Two items are selected, the one with the integer text first, and the
\* derived data holds the two texts as strings in that order.
C2_Witness ==
  /\ kind[2] = "AccumulatingListAdapter"
  /\ Emitted(1)
  /\ ret.err = "none"
  /\ selection[1] = <<Oi("1"), Os("x")>>
  /\ data[2] = <<S("1"), S("x")>>

\* C3: when a call has assigned an adapter's data (in the constructor, from
\* outside, or in a derived adapter's handler), the data is not empty and
\* allow_empty_selection is false, the selection is not empty when the call is
\* over.
C3_SelectionAfterReplacement ==
  \A a \in Adapters :
    (/\ Constructed(a)
     /\ DataReplaced(a)
     /\ Len(data[a]) > 0
     /\ ~allow_empty_selection[a])
    => selection[a] # << >>

\* A derived adapter's handler has replaced its data and a default selection
\* was made in it.
C3_Witness ==
  /\ Constructed(2)
  /\ ret.op = "toggle"
  /\ ret.a = 1
  /\ DataReplaced(2)
  /\ ~allow_empty_selection[2]
  /\ Len(data[2]) = 2
  /\ selection[2] = <<data[2][1]>>

\* C4: in single selection mode the selection never holds more than one item.
C4_SingleSelection ==
  \A a \in Adapters :
    (Constructed(a) /\ selection_mode[a] = "single") => Len(selection[a]) <= 1

\* A toggle of the second item has taken the place of the default selection.
C4_Witness ==
  /\ Constructed(1)
  /\ selection_mode[1] = "single"
  /\ ~allow_empty_selection[1]
  /\ ret.op = "toggle"
  /\ ret.a = 1
  /\ Len(data[1]) = 2
  /\ data[1][1] # data[1][2]
  /\ selection[1] = <<data[1][2]>>

\* C5: get_item(i) returns None, and does not raise, when i < 0 or
\* i >= get_count(), and the i-th item of the data otherwise.
C5_GetItem ==
  ret.op = "get_item" =>
    /\ ret.err = "none"
    /\ IF ret.i < 0 \/ ret.i >= Len(data[ret.a])
       THEN ret.val = NoneValue
       ELSE ret.val = data[ret.a][ret.i + 1]

\* The first of two items was asked for and returned.
C5_Witness ==
  /\ ret.op = "get_item"
  /\ ret.i = 0
  /\ Len(data[1]) = 2
  /\ ret.val = data[1][1]
  /\ ret.val # NoneValue


\* The 'text' argument a view of item is built with on adapter a.
ExpectedText(a, item) == IF args_converter[a] THEN Str(item).v ELSE item.v

\* The view get_view must have built of item on adapter a.
IsViewOf(val, a, item) ==
  /\ val.k = IF cls[a] THEN "view_cls" ELSE "view_template"
  /\ val.la = a
  /\ val.v = ExpectedText(a, item)

\* C6 as stated: for every valid index get_view returns a view built with the
\* adapter as 'list_adapter' and the arguments resolved from the item, and it
\* returns None exactly for the other indices.
C6_ViewForEveryValidIndex ==
  ret.op = "get_view" =>
    IF 0 <= ret.i /\ ret.i < Len(data[ret.a])
    THEN ret.err = "none" /\ IsViewOf(ret.val, ret.a, data[ret.a][ret.i + 1])
    ELSE ret.err = "none" /\ ret.val = NoneValue

\* C6, amended: for a valid index whose item resolves to a mapping (an
\* args_converter is set, or the item is a mapping) get_view returns a view
\* built with the adapter as 'list_adapter' and the resolved arguments; for a
\* valid index whose item is no mapping, with no args_converter, it raises
\* TypeError; for the other indices, and only for them, it returns None.
C6_ViewForResolvableItem ==
  ret.op = "get_view" =>
    IF 0 <= ret.i /\ ret.i < Len(data[ret.a])
    THEN LET item == data[ret.a][ret.i + 1]
         IN IF args_converter[ret.a] \/ item.k = "dict"
            THEN ret.err = "none" /\ IsViewOf(ret.val, ret.a, item)
            ELSE ret.err = "TypeError"
    ELSE ret.err = "none" /\ ret.val = NoneValue

\* A view was built of a dict item through the template, with no converter.
C6_Witness ==
  /\ ret.op = "get_view"
  /\ ret.err = "none"
  /\ ret.i = 1
  /\ ~args_converter[1]
  /\ template[1]
  /\ ret.val = [k |-> "view_template", v |-> "B", la |-> 1]

\* C7: a constructor given data that is no tuple or list raises, whatever the
\* other arguments, and has done nothing before: nothing is bound, no data is
\* assigned, initialize_selection and check_for_empty_selection have not run,
\* nothing was emitted, and there is no adapter.
C7_NonSequenceData ==
  (ret.op = "construct" /\ ~ret.arg.is_seq) =>
    /\ ret.err = "Exception"
    /\ events = << >>
    /\ ~Constructed(ret.a)
    /\ ret.a \notin data_bound
    /\ data[ret.a] = << >>
    /\ selection[ret.a] = << >>

\* A constructor was given a scalar, with an otherwise valid configuration.
C7_Witness ==
  /\ ret.op = "construct"
  /\ ~ret.arg.is_seq
  /\ ret.arg.cls
  /\ ~ret.arg.template
  /\ ret.err = "Exception"

\* C8: a constructor given both cls and template, or neither, raises
\* ConfigurationError and leaves no adapter; every adapter there is, and so
\* every adapter get_view runs on, has exactly one of the two.
C8_OneViewStrategy ==
  /\ (ret.op = "construct" /\ ret.arg.is_seq /\ ret.arg.cls = ret.arg.template)
       => (ret.err = "ConfigurationError" /\ ~Constructed(ret.a))
  /\ \A a \in Adapters : Constructed(a) => cls[a] # template[a]
  /\ ret.op = "get_view" => cls[ret.a] # template[ret.a]

\* A constructor was given both cls and template.
C8_Witness ==
  /\ ret.op = "construct"
  /\ ret.arg.is_seq
  /\ ret.arg.cls
  /\ ret.arg.template
  /\ ret.err = "ConfigurationError"
  /\ ~Constructed(1)

\* The last thing the last call did.
LastEvent == events[Len(events)]

\* C9: when the observed adapter has emitted selection-change and the key of
\* its first selected item is not in the table of a SelectableListsAdapter
\* bound to it, the call ends with KeyError raised to the caller, the last
\* thing it did was to enter that handler, and the derived data is what it
\* was before the call or what an empty selection in the course of the call
\* made it: the handler has assigned nothing.
C9_Step ==
  \A d \in Adapters :
    LET o == observed_list_adapter[d]
    IN (/\ kind[d] = "SelectableListsAdapter"
        /\ <<o, d>> \in bound
        /\ Emitted(o)'
        /\ selection'[o] # << >>
        /\ ObservedKey(d)' \notin DOMAIN selectable_lists_dict[d])
       => /\ ret'.err = "KeyError"
          /\ LastEvent' = <<"on_selection_change", d>>
          /\ data'[d] \in {data[d], << >>}

C9_LookupErrorPropagates == [][C9_Step]_vars

\* A toggle on the observed adapter ended with KeyError and the derived
\* adapter kept the data it had.
C9_Witness ==
  /\ kind[2] = "SelectableListsAdapter"
  /\ <<1, 2>> \in bound
  /\ ret.op = "toggle"
  /\ ret.a = 1
  /\ ret.err = "KeyError"
  /\ LastEvent = <<"on_selection_change", 2>>
  /\ data[2] # << >>

\* C10: whenever no call is in progress, from the return of its constructor
\* on, a derived adapter's data is what its class derives from the observed
\* adapter's current selection.
C10_CascadeLink ==
  \A d \in Adapters :
    LET o == observed_list_adapter[d]
    IN /\ (kind[d] = "SelectableListsAdapter" /\ selection[o] = << >>)
            => data[d] = << >>
       /\ (/\ kind[d] = "SelectableListsAdapter"
           /\ selection[o] # << >>
           /\ ObservedKey(d) \in DOMAIN selectable_lists_dict[d])
            => data[d] = selectable_lists_dict[d][ObservedKey(d)]
       /\ (/\ kind[d] = "AccumulatingListAdapter"
           /\ \A x \in Range(selection[o]) : HasText(x))
            => /\ Len(data[d]) = Len(selection[o])
               /\ \A n \in 1..Len(selection[o]) :
                    data[d][n] = Str(Text(selection[o][n]))


\* C11: an adapter whose allow_empty_selection is false never rests, between
\* calls, with an empty selection and data that is not empty, in single and in
\* multiple mode.
C11_NeverEmptySelection ==
  \A a \in Adapters :
    (Constructed(a) /\ ~allow_empty_selection[a] /\ Len(data[a]) > 0)
      => selection[a] # << >>


\* Derived adapter d holds the derivation of its observed adapter's current
\* selection, wherever that derivation is defined.
Fresh(d) ==
  LET o == observed_list_adapter[d]
  IN /\ (kind[d] = "SelectableListsAdapter" /\ selection[o] = << >>)
          => data[d] = << >>
     /\ (/\ kind[d] = "SelectableListsAdapter"
         /\ selection[o] # << >>
         /\ ObservedKey(d) \in DOMAIN selectable_lists_dict[d])
          => data[d] = selectable_lists_dict[d][ObservedKey(d)]
     /\ (/\ kind[d] = "AccumulatingListAdapter"
         /\ \A x \in Range(selection[o]) : HasText(x))
          => data[d] = [n \in 1..Len(selection[o]) |->
                          Str(Text(selection[o][n]))]

\* C12: in a chain A -> B -> C, when a toggle or a data replacement on A has
\* returned, B's data is the derivation of A's selection and C's data is the
\* derivation of B's selection: no derived adapter is left stale.
C12_ChainFresh ==
  (ret.op \in {"toggle", "set_data"} /\ ret.a = 1 /\ ret.err = "none")
    => \A d \in Adapters : Fresh(d)


\* The step is a toggle on adapter a, in the given mode, that returned.
ToggleReturned(a, mode) ==
  /\ ret'.op = "toggle"
  /\ ret'.a = a
  /\ ret'.err = "none"
  /\ selection_mode[a] = mode

\* C13: a toggle of item in single mode leaves the selection empty if item
\* was the sole selection and allow_empty_selection is true, and leaves
\* exactly item selected otherwise; selection-change is emitted exactly when
\* the selection after the call differs from the one before it.
C13_Step ==
  \A a \in Adapters :
    ToggleReturned(a, "single")
      => /\ selection'[a] =
              IF selection[a] = <<ret'.val>> /\ allow_empty_selection[a]
              THEN << >> ELSE <<ret'.val>>
         /\ Emitted(a)' <=> selection'[a] # selection[a]

C13_SingleToggle == [][C13_Step]_vars


\* C14: a toggle of item in multiple mode inserts item into the selection if
\* it was absent and removes it if it was present, leaving every other
\* selected item as it was; the same toggle made once more gives back the
\* selection the first one started from.  The selection is compared as the set
\* of selected items.
C14_Step ==
  \A a \in Adapters, x \in CascadeItems \cup ViewItems :
    (ToggleReturned(a, "multiple") /\ ret'.val = x)
      => LET before == Range(selection[a])
         IN /\ Range(selection'[a]) =
                 IF x \in before THEN before \ {x} ELSE before \cup {x}
            /\ LET again == toggle(World, a, x, MaxDepth)'
               IN again.err = "none" => Range(again.selection[a]) = before

C14_MultipleToggle == [][C14_Step]_vars


\* The last call assigned adapter a's data exactly once.
DataReplacedOnce(a) ==
  Cardinality({n \in 1..Len(events) : events[n] = <<"data", a>>}) = 1

\* C15: after every data replacement every selected item is an item of the
\* current data: the entries that no longer correspond to an item are removed
\* and those that still do are kept, in their order.
C15_Step ==
  \A a \in Adapters :
    DataReplaced(a)'
      => /\ Range(selection'[a]) \subseteq Range(data'[a])
         /\ (ret'.op = "set_data" /\ ret'.a = a /\ DataReplacedOnce(a)')
              => LET kept == SelectSeq(selection[a],
                                       LAMBDA x : x \in Range(data'[a]))
                 IN kept # << >> => selection'[a] = kept

C15_SelectionWithinData == [][C15_Step]_vars

\* A data replacement removed one selected item and kept another.
C15_Witness ==
  \E a \in Adapters :
    /\ ret.op = "set_data" /\ ret.a = a /\ ret.err = "none"
    /\ allow_empty_selection[a]
    /\ Emitted(a)
    /\ selection[a] # << >>


\* C16: check_for_empty_selection called with an empty selection, data that
\* is not empty and allow_empty_selection false selects the first item of the
\* data and emits selection-change once; in every other case it leaves the
\* selection as it was and emits nothing.
C16_Step ==
  \A a \in Adapters :
    (ret'.op = "check_for_empty_selection" /\ ret'.a = a)
      => IF selection[a] = << >> /\ data[a] # << >>
            /\ ~allow_empty_selection[a]
         THEN /\ selection'[a] = <<data[a][1]>>
              /\ Cardinality({n \in 1..Len(events') :
                                events'[n] = <<"emit", a>>}) = 1
         ELSE /\ selection'[a] = selection[a]
              /\ ~Emitted(a)'

C16_CheckForEmptySelection == [][C16_Step]_vars

\* check_for_empty_selection has selected the first of two different items.
C16_Witness ==
  \E a \in Adapters :
    /\ ret.op = "check_for_empty_selection" /\ ret.a = a
    /\ Emitted(a)
    /\ Len(data[a]) = 2 /\ data[a][1] # data[a][2]
    /\ selection[a] = <<data[a][1]>>


\* How many times the last call logged event e.
Count(e) == Cardinality({n \in 1..Len(events) : events[n] = e})

\* The step is a toggle on adapter a that returned with a's selection changed.
ToggleChanged(a) ==
  /\ ret'.op = "toggle" /\ ret'.a = a /\ ret'.err = "none"
  /\ selection'[a] # selection[a]

\* C17 as stated: a toggle that changes the selection causes exactly one
\* invocation of the handler of every derived adapter subscribed to the
\* toggled adapter, before the toggle returns.
C17_ExactlyOneStep ==
  \A a \in Adapters, d \in Adapters :
    (ToggleChanged(a) /\ <<a, d>> \in bound)
      => Count(<<"on_selection_change", d>>)' = 1

C17_ExactlyOneInvocation == [][C17_ExactlyOneStep]_vars

\* C17: nothing is coalesced or deferred: a toggle that changes the selection
\* emits selection-change before it returns, and within the call the handler
\* of every subscribed derived adapter has run once for each selection-change
\* the toggled adapter emitted and once more for each selection-change the
\* derived adapter itself emitted.
C17_Step ==
  \A a \in Adapters, d \in Adapters :
    (ret'.op = "toggle" /\ ret'.a = a /\ ret'.err = "none" /\ <<a, d>> \in bound)
      => /\ selection'[a] # selection[a] => Count(<<"emit", a>>)' >= 1
         /\ Count(<<"on_selection_change", d>>)' =
              Count(<<"emit", a>>)' + Count(<<"emit", d>>)'

C17_OneInvocationPerEmission == [][C17_Step]_vars

\* A toggle on the root ran the derived handler twice: once for the root's
\* selection-change and once for the derived adapter's own.
C17_Witness ==
  /\ ret.op = "toggle" /\ ret.a = 1 /\ ret.err = "none"
  /\ <<1, 2>> \in bound
  /\ Count(<<"emit", 1>>) = 1
  /\ Count(<<"emit", 2>>) = 1
  /\ Count(<<"on_selection_change", 2>>) = 2


\* C18: the handler of a derived adapter only reads the adapter it observes.
\* A call made on the derived adapter that runs its handler leaves the
\* observed adapter's data, selection and selection mode as they were and
\* emits no selection-change on the observed adapter; a toggle on an observed
\* ListAdapter that runs the handler leaves the observed data and mode as
\* they were, with the one selection-change of the toggle itself; and the
\* derived adapter's table is the same after the handler as before.
C18_Step ==
  \A d \in Adapters :
    LET o == observed_list_adapter[d]
    IN (<<o, d>> \in bound /\ Count(<<"on_selection_change", d>>)' >= 1)
         => /\ ret'.a = d
                 => /\ data'[o] = data[o]
                    /\ selection'[o] = selection[o]
                    /\ selection_mode'[o] = selection_mode[o]
                    /\ ~Emitted(o)'
            /\ (ret'.op = "toggle" /\ ret'.a = o /\ kind[o] = "ListAdapter")
                 => /\ data'[o] = data[o]
                    /\ selection_mode'[o] = selection_mode[o]
                    /\ Count(<<"emit", o>>)' = 1
                    /\ Range(selection'[o]) \subseteq
                         Range(selection[o]) \cup {ret'.val}
            /\ selectable_lists_dict'[d] = selectable_lists_dict[d]

C18_HandlerOnlyReads == [][C18_Step]_vars

\* A toggle on a derived adapter ran its handler while the observed adapter
\* had a selection.
C18_Witness ==
  /\ ret.op = "toggle" /\ ret.a = 2 /\ ret.err = "none"
  /\ <<1, 2>> \in bound
  /\ Count(<<"on_selection_change", 2>>) >= 1
  /\ Count(<<"data", 2>>) >= 1
  /\ selection[1] # << >>


\* C19: get_view(i) is a pure read of the adapter: for every index, with or
\* without an args_converter, the call leaves the data (its length, its order
\* and the contents of every item), the selection and get_count() as they
\* were, and emits no notification.
C19_Step ==
  \A a \in Adapters :
    (ret'.op = "get_view" /\ ret'.a = a)
      => /\ data'[a] = data[a]
         /\ selection'[a] = selection[a]
         /\ get_count(World, a)' = get_count(World, a)
         /\ \A b \in Adapters : ~Emitted(b)' /\ ~DataReplaced(b)'

C19_ViewIsPureRead == [][C19_Step]_vars


\* C20: in an acyclic chain of adapters every toggle and every data
\* replacement (the initial assignment of a constructor included) ends: the
\* cascade of notifications never reaches the nesting limit, and the call
\* returns or raises the lookup error of a handler.
C20_CascadeTerminates == ret.err # "RecursionLimit"

\* A toggle or data replacement on the head of a chain of three adapters
\* changed the selection of all three and returned.
C20_Witness ==
  /\ ret.op \in {"toggle", "set_data"} /\ ret.a = 1 /\ ret.err = "none"
  /\ <<1, 2>> \in bound /\ <<2, 3>> \in bound
  /\ Emitted(1) /\ Emitted(2) /\ Emitted(3)

====
